---- MODULE Spec2Model ----
(***************************************************************************)
(* Assessment attempt / certification state machine of the core app       *)
(* (core/models.py, core/views.py).                                       *)
(*                                                                         *)
(* The score of an attempt is computed by Python as a binary64 float      *)
(* ((correct_answers / total_questions) * 100) and is stored through a    *)
(* DecimalField(max_digits=5, decimal_places=2).  Both conversions are    *)
(* modelled bit-exactly on sequences of binary digits, because the        *)
(* pass/fail decision is taken on the float.                              *)
(***************************************************************************)
EXTENDS Integers, Sequences, FiniteSets, TLC

(***************************************************************************)
(* Binary64 arithmetic on non-negative values.                            *)
(* A float is [m |-> <<b1..b53>>, e |-> k] with value m * 2^k, b1 = 1,     *)
(* or FloatZero.  Bit sequences are most significant bit first.  The       *)
(* arithmetic is written as functions, so that an argument is evaluated    *)
(* once, before the call.                                                  *)
(***************************************************************************)
MantBits == 53

Bits == Seq({0, 1})
Floats == [m : Bits, e : Int]
FloatZero == [m |-> <<>>, e |-> 0]

IntBits[n \in Nat] ==
  IF n = 0 THEN <<>> ELSE Append(IntBits[n \div 2], n % 2)

BitsToInt[s \in Bits] ==
  IF s = <<>> THEN 0
  ELSE 2 * BitsToInt[SubSeq(s, 1, Len(s) - 1)] + s[Len(s)]

Zeros[n \in Nat] == [i \in 1..n |-> 0]

\* the bits of v, left-padded with zeros to width w
PadBits[v \in Nat, w \in Nat] == Zeros[w - Len(IntBits[v])] \o IntBits[v]

AnyOne[s \in Bits] == \E i \in 1..Len(s) : s[i] = 1

\* s + 1 on a bit sequence; the result is one bit longer when s is all ones
BitsInc[s \in Bits] ==
  IF \A i \in 1..Len(s) : s[i] = 1 THEN <<1>> \o Zeros[Len(s)]
  ELSE LET j == CHOOSE i \in 1..Len(s) :
                  s[i] = 0 /\ \A h \in (i + 1)..Len(s) : s[h] = 1
       IN  SubSeq(s, 1, j - 1) \o <<1>> \o Zeros[Len(s) - j]

\* bits are produced and consumed ChunkBits at a time
ChunkBits == 8

\* s * k + carry for a small multiplier k; the result has Len(s) low bits
\* preceded by the bits of the final carry
MulBits[s \in Bits, k \in Nat, carry \in Nat] ==
  IF s = <<>> THEN IntBits[carry]
  ELSE LET w == IF Len(s) < ChunkBits THEN Len(s) ELSE ChunkBits
           v == BitsToInt[SubSeq(s, Len(s) - w + 1, Len(s))] * k + carry
       IN  MulBits[SubSeq(s, 1, Len(s) - w), k, v \div (2 ^ w)]
             \o PadBits[v % (2 ^ w), w]

\* n binary digits of r / t (0 <= r < t) after the binary point
DivBits[r \in Nat, t \in Nat, n \in Nat] ==
  IF n = 0 THEN <<>>
  ELSE LET w == IF n < ChunkBits THEN n ELSE ChunkBits
       IN  PadBits[(r * (2 ^ w)) \div t, w]
             \o DivBits[(r * (2 ^ w)) % t, t, n - w]

\* the remainder left after n binary digits of r / t
DivRem[r \in Nat, t \in Nat, n \in Nat] ==
  IF n = 0 \/ r = 0 THEN r
  ELSE LET w == IF n < ChunkBits THEN n ELSE ChunkBits
       IN  DivRem[(r * (2 ^ w)) % t, t, n - w]

\* number of zero binary digits of r / t before its first one (0 < r < t)
LeadZeros[r \in Nat, t \in Nat] ==
  IF 2 * r >= t THEN 0 ELSE 1 + LeadZeros[2 * r, t]

\* round-half-to-even of the bit string s to MantBits digits; value = s * 2^e,
\* sticky tells that non-zero digits follow s
RoundBits[s \in Bits, e \in Int, sticky \in BOOLEAN] ==
  IF Len(s) <= MantBits
  THEN [m |-> s \o Zeros[MantBits - Len(s)], e |-> e - (MantBits - Len(s))]
  ELSE LET top  == SubSeq(s, 1, MantBits)
           g    == s[MantBits + 1]
           rest == sticky \/ AnyOne[SubSeq(s, MantBits + 2, Len(s))]
           d    == Len(s) - MantBits
           up   == g = 1 /\ (rest \/ top[MantBits] = 1)
           inc  == BitsInc[top]
       IN  IF ~up THEN [m |-> top, e |-> e + d]
           ELSE IF Len(inc) = MantBits THEN [m |-> inc, e |-> e + d]
           ELSE [m |-> SubSeq(inc, 1, MantBits), e |-> e + d + 1]

\* Python's c / t on ints (t > 0): the correctly rounded binary64 quotient
FloatDiv[c \in Nat, t \in Nat] ==
  IF c = 0 THEN FloatZero
  ELSE LET ip == IntBits[c \div t]
           r  == c % t
           z  == IF ip = <<>> /\ r > 0 THEN LeadZeros[r, t] ELSE 0
           n  == IF ip = <<>> THEN z + MantBits + 1 ELSE MantBits + 1 - Len(ip)
           fb == IF n > 0 THEN DivBits[r, t, n] ELSE <<>>
           rm == IF n > 0 THEN DivRem[r, t, n] ELSE r
           s  == IF ip = <<>> THEN SubSeq(fb, z + 1, n) ELSE ip \o fb
       IN  RoundBits[s, 0 - n, rm # 0]

\* Python's f * k for a small int k: the correctly rounded binary64 product
FloatMulInt[f \in Floats, k \in Nat] ==
  IF f.m = <<>> \/ k = 0 THEN FloatZero
  ELSE RoundBits[MulBits[f.m, k, 0], f.e, FALSE]

\* integer part of a float (values below 2^31 only)
FloatFloor[f \in Floats] ==
  IF f.m = <<>> \/ MantBits + f.e <= 0 THEN 0
  ELSE IF f.e >= 0 THEN BitsToInt[f.m \o Zeros[f.e]]
  ELSE BitsToInt[SubSeq(f.m, 1, MantBits + f.e)]

\* binary digits of a float after the binary point
FloatFrac[f \in Floats] ==
  IF f.m = <<>> \/ f.e >= 0 THEN <<>>
  ELSE IF MantBits + f.e <= 0 THEN Zeros[0 - (MantBits + f.e)] \o f.m
  ELSE SubSeq(f.m, MantBits + f.e + 1, MantBits)

\* float >= int, as Python compares them (exactly)
FloatGeqInt[f \in Floats, p \in Int] == FloatFloor[f] >= p

(***************************************************************************)
(* DecimalField(max_digits=5, decimal_places=2): a float is converted by  *)
(* Context(prec=5).create_decimal_from_float and then quantized to two    *)
(* places in a context of precision 5, both rounding half to even.  The   *)
(* stored value is kept in hundredths; DecimalOverflow stands for the     *)
(* decimal.InvalidOperation raised when more than 5 digits are needed.    *)
(***************************************************************************)
MaxDigits == 5
DecimalPlaces == 2
DecimalOverflow == -1

\* [ip, fr] * 10^n : integer part and binary fraction digits
ScaleDec[ip \in Nat, fr \in Bits, n \in Nat] ==
  IF n = 0 THEN [ip |-> ip, fr |-> fr]
  ELSE LET p == MulBits[fr, 10, 0]
       IN  ScaleDec[ip * 10 + BitsToInt[SubSeq(p, 1, Len(p) - Len(fr))],
                    SubSeq(p, Len(p) - Len(fr) + 1, Len(p)), n - 1]

\* ROUND_HALF_EVEN of ip + 0.fr to an integer
RoundHalfEven[ip \in Nat, fr \in Bits] ==
  IF fr = <<>> \/ fr[1] = 0 THEN ip
  ELSE IF AnyOne[SubSeq(fr, 2, Len(fr))] THEN ip + 1
  ELSE IF ip % 2 = 0 THEN ip ELSE ip + 1

\* ROUND_HALF_EVEN of v / d to an integer
RoundDivHalfEven[v \in Nat, d \in Nat] ==
  LET q == v \div d
      r == v % d
  IN  IF 2 * r > d THEN q + 1
      ELSE IF 2 * r < d THEN q
      ELSE IF q % 2 = 0 THEN q ELSE q + 1

NumDigits[n \in Nat] == IF n < 10 THEN 1 ELSE 1 + NumDigits[n \div 10]

\* zero decimal digits of 0.fr after the point, counted up to 4: a value
\* below 10^-4 is stored as 0.00 whatever its exact digits are
DecZeros[fr \in Bits, z \in Nat] ==
  IF z >= 4 THEN z
  ELSE IF ScaleDec[0, fr, 1].ip > 0 THEN z
  ELSE DecZeros[ScaleDec[0, fr, 1].fr, z + 1]

\* the digits kept by the two roundings, for integer part ip, fraction fr
\* and n decimal places of working precision
StoredDigits[ip \in Nat, fr \in Bits, n \in Nat] ==
  LET sc == ScaleDec[ip, fr, n]
      v  == RoundHalfEven[sc.ip, sc.fr]
      h  == IF n >= DecimalPlaces
            THEN RoundDivHalfEven[v, 10 ^ (n - DecimalPlaces)]
            ELSE v * (10 ^ (DecimalPlaces - n))
  IN  IF h >= 10 ^ MaxDigits THEN DecimalOverflow ELSE h

\* DecimalField.to_python followed by format_number, in hundredths
FloatToStored[f \in Floats] ==
  IF f.m = <<>> THEN 0
  ELSE IF FloatFloor[f] > 0 /\ NumDigits[FloatFloor[f]] > MaxDigits
  THEN DecimalOverflow
  ELSE StoredDigits[FloatFloor[f], FloatFrac[f],
                    IF FloatFloor[f] > 0
                    THEN MaxDigits - NumDigits[FloatFloor[f]]
                    ELSE MaxDigits + DecZeros[FloatFrac[f], 0]]

(***************************************************************************)
(* Catalog.  Assessment 1 owns question 1, assessment 2 owns questions 2   *)
(* and 3; assessment 3 does not exist.  Question 1 has a correct and a     *)
(* wrong option (1, 2), question 2 the correct option 3 and question 3 the *)
(* correct option 4.  Question 3 is not there at first: the admin may add  *)
(* it later.                                                               *)
(***************************************************************************)
MaxAttempts == 2
MaxTime == 4

Users == {"u1", "u2"}
Staff == {"u2"}

Assessments == {1, 2}
RequestedAssessments == {1, 2, 3}
QuestionAssessment == <<1, 2, 2>>
AllQuestions == DOMAIN QuestionAssessment
InitialQuestions == {1, 2}
OptionQuestionOf == <<1, 1, 2, 3>>
OptionCorrect == <<TRUE, FALSE, TRUE, TRUE>>
Options == DOMAIN OptionQuestionOf
OptionQuestion(o) == OptionQuestionOf[o]
OptionIsCorrect(o) == OptionCorrect[o]

Offices == {1}
RequestedOffices == {1, 2}

\* what a POST may carry in the field question_<id>: nothing, the id of an
\* option row, or an id that names no option row
NoOption == 0
MissingOption == Len(OptionQuestionOf) + 1
PostedOptions ==
  {NoOption}
    \cup {o \in Options : OptionQuestion(o) \in InitialQuestions}
    \cup {MissingOption}
AnswerMaps ==
  [{q \in InitialQuestions : QuestionAssessment[q] = 1} -> PostedOptions]

\* request.POST.get(f'question_{q}'): nothing when the field is not posted
Posted(answers, q) == IF q \in DOMAIN answers THEN answers[q] ELSE NoOption

PassingScores == {0, 85}
TotalQuestionsChoices == {0, 1, 4}

NullTime == 0
NullAttempt == 0

VARIABLES assessment, questions, attempts, responses, certifications,
          emails, now, reply,
          requests, modules, completions, progress, account

vars == <<assessment, questions, attempts, responses, certifications,
          emails, now, reply,
          requests, modules, completions, progress, account>>

\* the rows and objects of the assessment views
coreVars == <<assessment, questions, attempts, responses, certifications,
              emails, now, reply>>
\* the take_assessment requests in flight, each with its in-memory objects
requestVars == <<requests>>
\* TrainingModule, ModuleCompletion and UserTrainingProgress rows
trainingVars == <<modules, completions, progress>>
\* the CustomUser row of the login views
loginVars == <<account>>

\* assessment.questions.all()
QuestionsOf(qs, a) == {q \in qs : QuestionAssessment[q] = a}

\* an AssessmentOption row exists while its question does
OptionExists(qs, o) == o \in Options /\ OptionQuestion(o) \in qs

(***************************************************************************)
(* Rows                                                                    *)
(***************************************************************************)
\* total_questions left at zero instead of copied from the assessment
NewAttemptNoTotal(u, a, total, t) ==
  [user |-> u, assessment |-> a, status |-> "in_progress",
   total_questions |-> 0, correct_answers |-> 0, score_percentage |-> 0,
   passed |-> FALSE, started_at |-> t, submitted_at |-> NullTime]

NewAttempt(u, a, total, t) ==
  [user |-> u, assessment |-> a, status |-> "in_progress",
   total_questions |-> total, correct_answers |-> 0, score_percentage |-> 0,
   passed |-> FALSE, started_at |-> t, submitted_at |-> NullTime]

NewResponse(q) ==
  [question |-> q, selected_option |-> NoOption, is_correct |-> FALSE]

NewCertification(u) ==
  [user |-> u, is_certified |-> FALSE, certification_date |-> NullTime,
   passing_attempt |-> NullAttempt]

Reply(op, u, target, status) ==
  [op |-> op, user |-> u, target |-> target, status |-> status]

\* a request slot with no take_assessment request running in it
IdleRequest ==
  [pc |-> "idle", user |-> "none", id |-> NullAttempt,
   answers |-> <<NoOption>>, att |-> NewAttempt("none", 0, 0, NullTime),
   cert |-> NewCertification("none"), overlap |-> FALSE]

Requests == {1, 2}

\* CustomUser as created by registration: no failure counted, no lock
NewAccount(verified) ==
  [failed_login_attempts |-> 0, account_locked_until |-> NullTime,
   is_email_verified |-> verified, is_active |-> TRUE]

\* nothing in flight, no training catalog, an untouched account
RestIdle ==
  /\ requests = [r \in Requests |-> IdleRequest]
  /\ modules = <<>>
  /\ completions = <<>>
  /\ progress = <<>>
  /\ account = NewAccount(TRUE)

(***************************************************************************)
(* post_save receivers (core/signals.py): the mails a save sends           *)
(***************************************************************************)
\* send_assessment_email, run at every save of attempt id
AssessmentEmail(att, id) ==
  IF att.status = "graded"
  THEN {[kind |-> IF att.passed THEN "passed" ELSE "failed",
         user |-> att.user, attempt |-> id]}
  ELSE {}

\* send_certification_email, run at every save of a certification row
CertificationEmail(cert) ==
  IF cert.is_certified /\ cert.certification_date # NullTime
  THEN {[kind |-> "certification", user |-> cert.user, attempt |-> NullAttempt]}
  ELSE {}

\* the mails sent by the saves that turned the rows certs into certs2
CertificationEmails(certs, certs2) ==
  UNION {CertificationEmail(certs2[i]) :
           i \in {j \in 1..Len(certs2) :
                    j > Len(certs) \/ certs2[j] # certs[j]}}

(***************************************************************************)
(* AssessmentAttempt.calculate_score and .submit                          *)
(***************************************************************************)
\* (correct_answers / total_questions) * 100 as Python evaluates it
ScoreFloat(c, t) == FloatMulInt[FloatDiv[c, t], 100]

\* ScoreFloat and its stored form, evaluated once for the small arguments
MaxCalcCorrect == 50
MaxCalcTotal == 50
ScoreTable ==
  [c \in 0..MaxCalcCorrect, t \in 1..MaxCalcTotal |->
     [float |-> ScoreFloat(c, t), stored |-> FloatToStored[ScoreFloat(c, t)]]]

Score(c, t) ==
  IF c <= MaxCalcCorrect /\ t <= MaxCalcTotal THEN ScoreTable[c, t]
  ELSE [float |-> ScoreFloat(c, t), stored |-> FloatToStored[ScoreFloat(c, t)]]

\* "self.score_percentage >= self.assessment.passing_score" on the float
PassedThreshold(f, passing) == FloatGeqInt[f, passing]

\* the zero guard replaced by a division by max(total_questions, 1)
CalculateScoreDivisorFloor(att, asmt) ==
  LET t  == IF att.total_questions > 0 THEN att.total_questions ELSE 1
      sc == Score(att.correct_answers, t)
  IN  [att EXCEPT !.score_percentage = sc.stored,
                  !.passed = PassedThreshold(sc.float, asmt.passing_score)]

\* the divisor read from the assessment instead of the attempt
CalculateScoreLiveTotal(att, asmt) ==
  IF asmt.total_questions > 0
  THEN LET sc == Score(att.correct_answers, asmt.total_questions)
       IN  [att EXCEPT !.score_percentage = sc.stored,
                       !.passed = PassedThreshold(sc.float,
                                                  asmt.passing_score)]
  ELSE att

CalculateScore(att, asmt) ==
  IF att.total_questions > 0
  THEN LET sc == Score(att.correct_answers, att.total_questions)
       IN  [att EXCEPT !.score_percentage = sc.stored,
                       !.passed = PassedThreshold(sc.float,
                                                  asmt.passing_score)]
  ELSE att

\* save() raises when the score does not fit the DecimalField
SaveRaises(att) == att.score_percentage = DecimalOverflow

\* the status moved without stamping submitted_at
SubmitWithoutTimestamp(att, t) ==
  [att EXCEPT !.status = "submitted"]

SubmitAttempt(att, t) ==
  [att EXCEPT !.status = "submitted", !.submitted_at = t]

(***************************************************************************)
(* UserCertification                                                       *)
(***************************************************************************)
CertRowsOf(certs, u) == {i \in 1..Len(certs) : certs[i].user = u}

CertifyWithoutAttempt(cert, attemptId, t) ==
  [cert EXCEPT !.is_certified = TRUE, !.certification_date = t]

Certify(cert, attemptId, t) ==
  [cert EXCEPT !.is_certified = TRUE, !.certification_date = t,
               !.passing_attempt = attemptId]

\* the block entered whatever attempt.passed is
UpdateCertificationAnyResult(certs, u, attemptId, passed, t) ==
  LET withRow == IF CertRowsOf(certs, u) = {}
                 THEN Append(certs, NewCertification(u))
                 ELSE certs
      i == CHOOSE j \in CertRowsOf(withRow, u) : TRUE
  IN  IF withRow[i].is_certified THEN withRow
      ELSE [withRow EXCEPT ![i] = Certify(withRow[i], attemptId, t)]

\* certify() called without the "if not cert.is_certified" check
UpdateCertificationAlways(certs, u, attemptId, passed, t) ==
  IF ~passed THEN certs
  ELSE LET withRow == IF CertRowsOf(certs, u) = {}
                      THEN Append(certs, NewCertification(u))
                      ELSE certs
           i == CHOOSE j \in CertRowsOf(withRow, u) : TRUE
       IN  [withRow EXCEPT ![i] = Certify(withRow[i], attemptId, t)]

\* the certification flag kept in step with the latest attempt
UpdateCertificationSync(certs, u, attemptId, passed, t) ==
  IF CertRowsOf(certs, u) = {} /\ ~passed THEN certs
  ELSE LET withRow == IF CertRowsOf(certs, u) = {}
                      THEN Append(certs, NewCertification(u))
                      ELSE certs
           i == CHOOSE j \in CertRowsOf(withRow, u) : TRUE
       IN  IF passed
           THEN IF withRow[i].is_certified THEN withRow
                ELSE [withRow EXCEPT ![i] = Certify(withRow[i], attemptId, t)]
           ELSE [withRow EXCEPT ![i].is_certified = FALSE]

\* take_assessment: "if attempt.passed:" block
UpdateCertification(certs, u, attemptId, passed, t) ==
  IF ~passed THEN certs
  ELSE LET withRow == IF CertRowsOf(certs, u) = {}
                      THEN Append(certs, NewCertification(u))
                      ELSE certs
           i == CHOOSE j \in CertRowsOf(withRow, u) : TRUE
       IN  IF withRow[i].is_certified THEN withRow
           ELSE [withRow EXCEPT ![i] = Certify(withRow[i], attemptId, t)]

\* request.user.certification.is_certified, DoesNotExist caught as False
IsCertified(certs, u) ==
  \E i \in CertRowsOf(certs, u) : certs[i].is_certified

(***************************************************************************)
(* Views (core/views.py)                                                   *)
(***************************************************************************)
RequestedAttempts == 1..MaxAttempts

\* the lookup without the user filter
AttemptFoundAnyUser(atts, u, id) == id \in 1..Len(atts)

\* get_object_or_404(AssessmentAttempt, id=attempt_id, user=request.user)
AttemptFound(atts, u, id) == id \in 1..Len(atts) /\ atts[id].user = u

\* get_object_or_404(Assessment, id=assessment_id, is_active=True)
\* the lookup without its is_active filter
AssessmentFoundInactive(asmt, aid) == aid \in Assessments

AssessmentFound(asmt, aid) == aid \in Assessments /\ asmt[aid].is_active

\* a random draw with repetition instead of a shuffle
ShufflesWithRepeats(S) == [1..Cardinality(S) -> S]

Shuffles(S) ==
  {p \in [1..Cardinality(S) -> S] :
     \A i, j \in 1..Cardinality(S) : i # j => p[i] # p[j]}

\* the questions in stored order (order_by('order'))
RECURSIVE SortedSeq(_)
SortedSeq(S) ==
  IF S = {} THEN <<>>
  ELSE LET x == CHOOSE y \in S : \A z \in S : y <= z
       IN  <<x>> \o SortedSeq(S \ {x})

\* the question sequences start_assessment may iterate over
QuestionOrders(asmt, aid) ==
  IF asmt[aid].randomize_questions THEN Shuffles(QuestionsOf(questions, aid))
  ELSE {SortedSeq(QuestionsOf(questions, aid))}

StartAssessment(u, aid) ==
  /\ UNCHANGED <<requestVars, trainingVars, loginVars>>
  /\ now < MaxTime
  /\ Len(attempts) < MaxAttempts
  /\ IF ~AssessmentFound(assessment, aid)
     THEN /\ reply' = Reply("start", u, aid, "not_found")
          /\ UNCHANGED <<attempts, responses, emails, now>>
     ELSE \E order \in QuestionOrders(assessment, aid) :
            /\ now' = now + 1
            /\ attempts' = Append(attempts,
                 NewAttempt(u, aid, assessment[aid].total_questions, now'))
            /\ responses' = Append(responses,
                 [i \in 1..Len(order) |-> NewResponse(order[i])])
            /\ emails' = emails \cup
                 AssessmentEmail(attempts'[Len(attempts')], Len(attempts'))
            /\ reply' = Reply("start", u, Len(attempts'), "redirect_take")
  /\ UNCHANGED <<assessment, questions, certifications>>

\* index of the first response whose posted option id names no option row
\* (get_object_or_404(AssessmentOption, id=option_id) raises there), else 0
FirstMissing(rs, answers) ==
  LET bad == {i \in 1..Len(rs) :
                /\ Posted(answers, rs[i].question) # NoOption
                /\ ~OptionExists(questions, Posted(answers, rs[i].question))}
  IN  IF bad = {} THEN 0
      ELSE CHOOSE i \in bad : \A j \in bad : i <= j

\* the option the loop accepts for a response: any existing option row
AcceptedOption(resp, answers) == Posted(answers, resp.question)

\* the responses after the loop has handled the first upto of them
ProcessResponses(rs, answers, upto) ==
  [i \in 1..Len(rs) |->
     IF i <= upto /\ Posted(answers, rs[i].question) # NoOption
     THEN [rs[i] EXCEPT
             !.selected_option = AcceptedOption(rs[i], answers),
             !.is_correct = OptionIsCorrect(AcceptedOption(rs[i], answers))]
     ELSE rs[i]]

\* the increments "attempt.correct_answers += 1" of the loop
CorrectIncrements(rs, answers) ==
  Cardinality({i \in 1..Len(rs) :
                 /\ Posted(answers, rs[i].question) # NoOption
                 /\ OptionIsCorrect(AcceptedOption(rs[i], answers))})

\* the attempt object as loaded by the view, before the loop counts
LoadedAttempt(att) == att

TakeAssessmentPost(u, id, answers) ==
  /\ UNCHANGED <<requestVars, trainingVars, loginVars>>
  /\ now < MaxTime
  /\ IF ~AttemptFound(attempts, u, id)
     THEN /\ reply' = Reply("take_post", u, id, "not_found")
          /\ UNCHANGED <<attempts, responses, certifications, emails, now>>
     ELSE LET rs      == responses[id]
              fm      == FirstMissing(rs, answers)
              counted == [LoadedAttempt(attempts[id]) EXCEPT
                            !.correct_answers =
                               @ + CorrectIncrements(rs, answers)]
              scored  == CalculateScore(counted, assessment[counted.assessment])
              final   == SubmitAttempt(scored, now + 1)
          IN  IF fm > 0
              THEN /\ responses' = [responses EXCEPT
                         ![id] = ProcessResponses(rs, answers, fm - 1)]
                   /\ reply' = Reply("take_post", u, id, "not_found")
                   /\ UNCHANGED <<attempts, certifications, emails, now>>
              ELSE /\ responses' = [responses EXCEPT
                         ![id] = ProcessResponses(rs, answers, Len(rs))]
                   /\ IF SaveRaises(scored)
                      THEN /\ reply' = Reply("take_post", u, id,
                                             "server_error")
                           /\ UNCHANGED <<attempts, certifications,
                                          emails, now>>
                      ELSE /\ now' = now + 1
                           /\ attempts' = [attempts EXCEPT ![id] = final]
                           /\ certifications' =
                                UpdateCertification(certifications, u, id,
                                                    final.passed, now + 1)
                           /\ emails' =
                                emails
                                  \cup AssessmentEmail(scored, id)
                                  \cup AssessmentEmail(final, id)
                                  \cup CertificationEmails(certifications,
                                                           certifications')
                           /\ reply' = Reply("take_post", u, id,
                                             "redirect_result")
  /\ UNCHANGED <<assessment, questions>>

TakeAssessmentGet(u, id) ==
  /\ UNCHANGED <<requestVars, trainingVars, loginVars>>
  /\ reply' = Reply("take_get", u, id,
                    IF AttemptFound(attempts, u, id) THEN "ok"
                    ELSE "not_found")
  /\ UNCHANGED <<assessment, questions, attempts, responses,
               certifications, emails, now>>

AssessmentResult(u, id) ==
  /\ UNCHANGED <<requestVars, trainingVars, loginVars>>
  /\ reply' = Reply("result", u, id,
                    IF AttemptFound(attempts, u, id) THEN "ok"
                    ELSE "not_found")
  /\ UNCHANGED <<assessment, questions, attempts, responses,
               certifications, emails, now>>

\* DoesNotExist not handled as "not certified"
GateOpenWithoutRow(certs, u) ==
  CertRowsOf(certs, u) = {} \/ IsCertified(certs, u)

\* the certification check shared by office_schedule and office_detail
GateOpen(certs, u) == IsCertified(certs, u)

OfficeSchedule(u) ==
  /\ UNCHANGED <<requestVars, trainingVars, loginVars>>
  /\ reply' = Reply("office_schedule", u, 0,
                    IF u \in Staff \/ GateOpen(certifications, u) THEN "ok"
                    ELSE "redirect_assessment_list")
  /\ UNCHANGED <<assessment, questions, attempts, responses,
               certifications, emails, now>>

\* past the gate office_detail reads Office.code, a field the model lacks
OfficeDetail(u, o) ==
  /\ UNCHANGED <<requestVars, trainingVars, loginVars>>
  /\ reply' = Reply("office_detail", u, o,
                    IF ~GateOpen(certifications, u)
                    THEN "redirect_assessment_list"
                    ELSE IF o \notin Offices THEN "not_found"
                    ELSE "server_error")
  /\ UNCHANGED <<assessment, questions, attempts, responses,
               certifications, emails, now>>

Init ==
  /\ RestIdle
  /\ \E p \in PassingScores, n \in TotalQuestionsChoices :
       assessment =
         [a \in Assessments |->
            [passing_score |-> p, total_questions |-> n,
             randomize_questions |-> (a = 1), is_active |-> (a = 1)]]
  /\ questions = InitialQuestions
  /\ attempts = <<>>
  /\ responses = <<>>
  /\ certifications \in {<<>>, <<NewCertification("u1")>>}
  /\ emails = {}
  /\ now = 0
  /\ reply = Reply("none", "none", 0, "none")

Next ==
  \/ \E u \in Users, aid \in RequestedAssessments : StartAssessment(u, aid)
  \/ \E u \in Users, id \in RequestedAttempts, answers \in AnswerMaps :
       TakeAssessmentPost(u, id, answers)
  \/ \E u \in Users, id \in RequestedAttempts : TakeAssessmentGet(u, id)
  \/ \E u \in Users, id \in RequestedAttempts : AssessmentResult(u, id)
  \/ \E u \in Users : OfficeSchedule(u)
  \/ \E u \in Users, o \in RequestedOffices : OfficeDetail(u, o)

Spec == Init /\ [][Next]_vars

(***************************************************************************)
(* calculate_score on its own: an attempt with any correct_answers and    *)
(* total_questions against any passing_score                              *)
(***************************************************************************)
MinPassingScore == 0
MaxPassingScore == 100

CalcInit ==
  /\ RestIdle
  /\ \E p \in MinPassingScore..MaxPassingScore, c \in 0..MaxCalcCorrect,
        n \in 0..MaxCalcTotal :
       /\ assessment =
            [a \in Assessments |->
               [passing_score |-> p, total_questions |-> n,
                randomize_questions |-> (a = 1), is_active |-> (a = 1)]]
       /\ attempts = <<[NewAttempt("u1", 1, n, NullTime) EXCEPT
                          !.correct_answers = c]>>
  /\ questions = InitialQuestions
  /\ responses = << <<>> >>
  /\ certifications = <<>>
  /\ emails = {}
  /\ now = 0
  /\ reply = Reply("none", "none", 0, "none")

CalcStep ==
  /\ UNCHANGED <<requestVars, trainingVars, loginVars>>
  /\ reply.op = "none"
  /\ attempts' = [attempts EXCEPT
                    ![1] = CalculateScore(attempts[1], assessment[1])]
  /\ emails' = emails \cup AssessmentEmail(attempts'[1], 1)
  /\ reply' = Reply("calculate_score", "u1", 1, "ok")
  /\ UNCHANGED <<assessment, questions, responses, certifications, now>>

CalcNext == CalcStep

CalcSpec == CalcInit /\ [][CalcNext]_vars

(***************************************************************************)
(* The quiz of assessment 2 while the admin edits it: the admin changes    *)
(* Assessment.total_questions and adds question 3 (AssessmentAdminClass    *)
(* with AssessmentQuestionInline), a user starts, submits and reads        *)
(* attempts in between.                                                    *)
(***************************************************************************)
QuizUser == "u1"
QuizAssessment == 2
QuizTotals == {1, 2}
\* each question of the quiz left out or answered with an option of its own
QuizAnswerMaps ==
  {answers \in [{q \in AllQuestions : QuestionAssessment[q] = QuizAssessment}
                  -> {NoOption} \cup Options] :
     \A q \in DOMAIN answers :
       answers[q] # NoOption => OptionQuestion(answers[q]) = q}

AdminSetTotalQuestions(aid, n) ==
  /\ UNCHANGED <<requestVars, trainingVars, loginVars>>
  /\ assessment[aid].total_questions # n
  /\ assessment' = [assessment EXCEPT ![aid].total_questions = n]
  /\ UNCHANGED <<questions, attempts, responses, certifications, emails, now,
                 reply>>

AdminAddQuestion(q) ==
  /\ UNCHANGED <<requestVars, trainingVars, loginVars>>
  /\ q \notin questions
  /\ questions' = questions \cup {q}
  /\ UNCHANGED <<assessment, attempts, responses, certifications, emails,
                 now, reply>>

QuizInit ==
  /\ RestIdle
  /\ \E r \in BOOLEAN :
       assessment =
         [a \in Assessments |->
            [passing_score |-> 85, total_questions |-> 1,
             randomize_questions |-> r, is_active |-> (a = QuizAssessment)]]
  /\ questions = InitialQuestions
  /\ attempts = <<>>
  /\ responses = <<>>
  /\ certifications = <<>>
  /\ emails = {}
  /\ now = 0
  /\ reply = Reply("none", "none", 0, "none")

QuizNext ==
  \/ \E aid \in RequestedAssessments : StartAssessment(QuizUser, aid)
  \/ \E id \in RequestedAttempts, answers \in QuizAnswerMaps :
       TakeAssessmentPost(QuizUser, id, answers)
  \/ \E id \in RequestedAttempts : AssessmentResult(QuizUser, id)
  \/ \E n \in QuizTotals : AdminSetTotalQuestions(QuizAssessment, n)
  \/ \E q \in AllQuestions : AdminAddQuestion(q)

QuizSpec == QuizInit /\ [][QuizNext]_vars

(***************************************************************************)
(* The quiz with stale forms: a POST may carry, for any question, an id    *)
(* that names no AssessmentOption row (the option was deleted after the    *)
(* form was rendered, or the field was forged).                            *)
(***************************************************************************)
StaleAnswerMaps ==
  {answers \in [{q \in AllQuestions : QuestionAssessment[q] = QuizAssessment}
                  -> {NoOption, MissingOption} \cup Options] :
     \A q \in DOMAIN answers :
       answers[q] \in Options => OptionQuestion(answers[q]) = q}

StaleNext ==
  \/ \E aid \in RequestedAssessments : StartAssessment(QuizUser, aid)
  \/ \E id \in RequestedAttempts, answers \in StaleAnswerMaps :
       TakeAssessmentPost(QuizUser, id, answers)
  \/ \E q \in AllQuestions : AdminAddQuestion(q)

StaleSpec == QuizInit /\ [][StaleNext]_vars

(***************************************************************************)
(* take_assessment POSTs running side by side (two browser tabs, a double  *)
(* click): every query and every save() of the view is a step of its own,  *)
(* on the objects the request holds in memory, with no lock and no         *)
(* transaction around them.  overlap records that the request read the     *)
(* attempt row while the other request held the same row unwritten.        *)
(***************************************************************************)
RaceUser == "u1"
RaceAssessment == 1
\* posts that answer the question with one of its options
RaceAnswerMaps ==
  {answers \in AnswerMaps :
     \A q \in DOMAIN answers : OptionExists(InitialQuestions, answers[q])}

Finished == {"done", "failed"}
\* between get_object_or_404 and the first save() of the attempt
ReadUnwritten == {"loop", "score"}

\* get_object_or_404(AssessmentAttempt, id=attempt_id, user=request.user)
BeginRequest(r, u, id, answers) ==
  /\ requests[r].pc = "idle"
  /\ AttemptFound(attempts, u, id)
  /\ LET peers == {o \in Requests \ {r} :
                     /\ requests[o].id = id
                     /\ requests[o].pc \in ReadUnwritten}
     IN  requests' =
           [o \in Requests |->
              IF o = r
              THEN [pc |-> "loop", user |-> u, id |-> id,
                    answers |-> answers, att |-> LoadedAttempt(attempts[id]),
                    cert |-> NewCertification("none"),
                    overlap |-> peers # {}]
              ELSE IF o \in peers
              THEN [requests[o] EXCEPT !.overlap = TRUE]
              ELSE requests[o]]
  /\ UNCHANGED <<coreVars, trainingVars, loginVars>>

\* the loop over attempt.responses.all(): response.save() and the count
ProcessLoop(r) ==
  /\ requests[r].pc = "loop"
  /\ LET id == requests[r].id
         rs == responses[id]
         answers == requests[r].answers
     IN  /\ responses' = [responses EXCEPT
                            ![id] = ProcessResponses(rs, answers, Len(rs))]
         /\ requests' = [requests EXCEPT
                           ![r].pc = "score",
                           ![r].att.correct_answers =
                              @ + CorrectIncrements(rs, answers)]
  /\ UNCHANGED <<assessment, questions, attempts, certifications, emails,
                 now, reply, trainingVars, loginVars>>

\* attempt.calculate_score(): the score from the object in memory, save()
SaveScore(r) ==
  /\ requests[r].pc = "score"
  /\ LET id == requests[r].id
         scored == CalculateScore(requests[r].att,
                                  assessment[requests[r].att.assessment])
     IN  IF SaveRaises(scored)
         THEN /\ requests' = [requests EXCEPT ![r].pc = "failed"]
              /\ UNCHANGED <<attempts, emails>>
         ELSE /\ requests' = [requests EXCEPT ![r].pc = "submit",
                                              ![r].att = scored]
              /\ attempts' = [attempts EXCEPT ![id] = scored]
              /\ emails' = emails \cup AssessmentEmail(scored, id)
  /\ UNCHANGED <<assessment, questions, responses, certifications, now,
                 reply, trainingVars, loginVars>>

\* attempt.submit(): status and submitted_at on the object in memory, save()
SaveSubmit(r) ==
  /\ requests[r].pc = "submit"
  /\ now < MaxTime
  /\ LET id == requests[r].id
         final == SubmitAttempt(requests[r].att, now + 1)
     IN  /\ now' = now + 1
         /\ attempts' = [attempts EXCEPT ![id] = final]
         /\ emails' = emails \cup AssessmentEmail(final, id)
         /\ requests' = [requests EXCEPT
                           ![r].att = final,
                           ![r].pc = IF final.passed THEN "cert_lookup"
                                     ELSE "done"]
  /\ UNCHANGED <<assessment, questions, responses, certifications, reply,
                 trainingVars, loginVars>>

\* cert = request.user.certification, or DoesNotExist
CertLookup(r) ==
  /\ requests[r].pc = "cert_lookup"
  /\ LET rows == CertRowsOf(certifications, requests[r].user)
     IN  requests' =
           IF rows = {}
           THEN [requests EXCEPT ![r].pc = "cert_create"]
           ELSE [requests EXCEPT
                   ![r].pc = "certify",
                   ![r].cert = certifications[CHOOSE i \in rows : TRUE]]
  /\ UNCHANGED <<coreVars, trainingVars, loginVars>>

\* UserCertification.objects.create(user=request.user): the one-to-one
\* user column is unique, a second row for the user raises IntegrityError
CertCreate(r) ==
  /\ requests[r].pc = "cert_create"
  /\ IF CertRowsOf(certifications, requests[r].user) # {}
     THEN /\ requests' = [requests EXCEPT ![r].pc = "failed"]
          /\ UNCHANGED <<certifications, emails>>
     ELSE /\ certifications' =
               Append(certifications, NewCertification(requests[r].user))
          /\ emails' = emails \cup
               CertificationEmail(NewCertification(requests[r].user))
          /\ requests' = [requests EXCEPT
                            ![r].pc = "certify",
                            ![r].cert = NewCertification(requests[r].user)]
  /\ UNCHANGED <<assessment, questions, attempts, responses, now, reply,
                 trainingVars, loginVars>>

\* if not cert.is_certified: cert.certify(attempt), on the object in memory
CertifyStep(r) ==
  /\ requests[r].pc = "certify"
  /\ IF requests[r].cert.is_certified
     THEN /\ requests' = [requests EXCEPT ![r].pc = "done"]
          /\ UNCHANGED <<certifications, emails>>
     ELSE LET i == CHOOSE j \in CertRowsOf(certifications, requests[r].user) :
                     TRUE
              certified == Certify(requests[r].cert, requests[r].id, now)
          IN  /\ certifications' = [certifications EXCEPT ![i] = certified]
              /\ emails' = emails \cup CertificationEmail(certified)
              /\ requests' = [requests EXCEPT ![r].pc = "done",
                                              ![r].cert = certified]
  /\ UNCHANGED <<assessment, questions, attempts, responses, now, reply,
                 trainingVars, loginVars>>

\* the response goes out: the redirect to the result, or the error page
Release(r) ==
  /\ requests[r].pc \in Finished
  /\ reply' = Reply("take_post", requests[r].user, requests[r].id,
                    IF requests[r].pc = "done" THEN "redirect_result"
                    ELSE "server_error")
  /\ requests' = [requests EXCEPT ![r] = IdleRequest]
  /\ UNCHANGED <<assessment, questions, attempts, responses, certifications,
                 emails, now, trainingVars, loginVars>>

RaceInit ==
  /\ assessment =
       [a \in Assessments |->
          [passing_score |-> 85, total_questions |-> 1,
           randomize_questions |-> FALSE, is_active |-> (a = RaceAssessment)]]
  /\ questions = InitialQuestions
  /\ attempts = <<>>
  /\ responses = <<>>
  /\ certifications = <<>>
  /\ emails = {}
  /\ now = 0
  /\ reply = Reply("none", "none", 0, "none")
  /\ RestIdle

RaceNext ==
  \/ StartAssessment(RaceUser, RaceAssessment)
  \/ \E r \in Requests, id \in RequestedAttempts, answers \in RaceAnswerMaps :
       BeginRequest(r, RaceUser, id, answers)
  \/ \E r \in Requests : ProcessLoop(r)
  \/ \E r \in Requests : SaveScore(r)
  \/ \E r \in Requests : SaveSubmit(r)
  \/ \E r \in Requests : CertLookup(r)
  \/ \E r \in Requests : CertCreate(r)
  \/ \E r \in Requests : CertifyStep(r)
  \/ \E r \in Requests : Release(r)

RaceSpec == RaceInit /\ [][RaceNext]_vars

(***************************************************************************)
(* Training (core/views.py, core/models.py): one course whose modules are  *)
(* required or optional, a user who opens modules, marks them complete,    *)
(* reports reading progress, lists the assessments and takes one.  The     *)
(* timestamps of the training rows and the mails of their post_save        *)
(* receivers are left out.                                                 *)
(***************************************************************************)
TrainUser == "u1"
TrainCourse == 1
TrainAssessment == 1

\* TrainingModule rows; the id of a module is its index
NewModule(course, order, required) ==
  [course |-> course, order |-> order, is_required |-> required]

Catalogs ==
  {<<NewModule(TrainCourse, 1, r1), NewModule(TrainCourse, 2, r2)>> :
     r1 \in BOOLEAN, r2 \in BOOLEAN}

ModuleIds(mods) == 1..Len(mods)
RequestedModules == {1, 2, 3}

NewCompletion(u, m) == [user |-> u, module |-> m, is_completed |-> FALSE]

NewProgress(u, course) ==
  [user |-> u, course |-> course, status |-> "not_started",
   progress_percentage |-> 0]

\* ModuleCompletion.objects.get_or_create(user=, module=)
CompletionRowsOf(cs, u, m) ==
  {i \in 1..Len(cs) : cs[i].user = u /\ cs[i].module = m}

GetOrCreateCompletion(cs, u, m) ==
  IF CompletionRowsOf(cs, u, m) = {} THEN Append(cs, NewCompletion(u, m))
  ELSE cs

\* UserTrainingProgress.objects.get_or_create(user=, course=)
ProgressRowsOf(ps, u, course) ==
  {i \in 1..Len(ps) : ps[i].user = u /\ ps[i].course = course}

GetOrCreateProgress(ps, u, course) ==
  IF ProgressRowsOf(ps, u, course) = {} THEN Append(ps, NewProgress(u, course))
  ELSE ps

\* course.modules.all() and course.modules.filter(is_required=True)
CourseModules(mods, course) ==
  {m \in ModuleIds(mods) : mods[m].course = course}

RequiredModules(mods, course) ==
  {m \in CourseModules(mods, course) : mods[m].is_required}

\* ModuleCompletion.objects.filter(user=, module__course=, is_completed=True)
CompletedModules(cs, mods, u, course) ==
  {m \in CourseModules(mods, course) :
     \E i \in CompletionRowsOf(cs, u, m) : cs[i].is_completed}

\* course_detail: a module is shown locked while it is not completed and a
\* module before it, by order, is not completed
IsLocked(cs, mods, u, m) ==
  /\ m \notin CompletedModules(cs, mods, u, mods[m].course)
  /\ \E e \in CourseModules(mods, mods[m].course) :
       /\ mods[e].order < mods[m].order
       /\ e \notin CompletedModules(cs, mods, u, mods[m].course)

\* completed_count / count * 100 as a float, 0 for a count of 0
ProgressFloat(c, n) == IF n > 0 THEN Score(c, n).float ELSE FloatZero

FloatPositive(f) == f.m # <<>>

\* module_view: the progress row, mark_started, the completion row
ModuleView(u, m) ==
  /\ IF m \notin ModuleIds(modules)
     THEN /\ reply' = Reply("module_view", u, m, "not_found")
          /\ UNCHANGED <<completions, progress>>
     ELSE LET ps == GetOrCreateProgress(progress, u, modules[m].course)
              i == CHOOSE j \in ProgressRowsOf(ps, u, modules[m].course) : TRUE
          IN  /\ progress' =
                   IF ps[i].status = "not_started"
                   THEN [ps EXCEPT ![i].status = "in_progress"]
                   ELSE ps
              /\ completions' = GetOrCreateCompletion(completions, u, m)
              /\ reply' = Reply("module_view", u, m, "ok")
  /\ UNCHANGED <<assessment, questions, attempts, responses, certifications,
                 emails, now, modules, requestVars, loginVars>>

\* mark_module_complete: the completion row, then the course progress from
\* the completed modules over the required ones
MarkModuleComplete(u, m) ==
  /\ IF m \notin ModuleIds(modules)
     THEN /\ reply' = Reply("mark_module_complete", u, m, "not_found")
          /\ UNCHANGED <<completions, progress>>
     ELSE LET course == modules[m].course
              cs == GetOrCreateCompletion(completions, u, m)
              k == CHOOSE j \in CompletionRowsOf(cs, u, m) : TRUE
              done == [cs EXCEPT ![k].is_completed = TRUE]
              n == Cardinality(RequiredModules(modules, course))
              c == Cardinality(CompletedModules(done, modules, u, course))
              f == ProgressFloat(c, n)
              ps == GetOrCreateProgress(progress, u, course)
              i == CHOOSE j \in ProgressRowsOf(ps, u, course) : TRUE
          IN  /\ completions' = done
              /\ progress' =
                   [ps EXCEPT
                      ![i].progress_percentage = FloatFloor[f],
                      ![i].status = IF FloatGeqInt[f, 100] THEN "completed"
                                    ELSE IF FloatPositive(f) THEN "in_progress"
                                    ELSE @]
              /\ reply' = Reply("mark_module_complete", u, m, "ok")
  /\ UNCHANGED <<assessment, questions, attempts, responses, certifications,
                 emails, now, modules, requestVars, loginVars>>

\* what the client reports to module_progress_api
ContentTypes == {"video", "text"}
ReportedPercentages == {90, 95}

ApiCompletes(contentType, percentage) ==
  \/ contentType = "video" /\ percentage >= 90
  \/ contentType \in {"pdf", "text"} /\ percentage >= 95

\* module_progress_api: the completion row, then the course progress from
\* the completed modules over all modules of the course; any exception,
\* the 404 of the module lookup too, is answered with status 400
ModuleProgressApi(u, m, contentType, percentage) ==
  /\ IF m \notin ModuleIds(modules)
     THEN /\ reply' = Reply("module_progress_api", u, m, "bad_request")
          /\ UNCHANGED <<completions, progress>>
     ELSE LET course == modules[m].course
              cs == GetOrCreateCompletion(completions, u, m)
              k == CHOOSE j \in CompletionRowsOf(cs, u, m) : TRUE
              done == IF ApiCompletes(contentType, percentage)
                      THEN [cs EXCEPT ![k].is_completed = TRUE]
                      ELSE cs
              n == Cardinality(CourseModules(modules, course))
              c == Cardinality(CompletedModules(done, modules, u, course))
              ps == GetOrCreateProgress(progress, u, course)
              i == CHOOSE j \in ProgressRowsOf(ps, u, course) : TRUE
          IN  /\ completions' = done
              /\ progress' =
                   [ps EXCEPT
                      ![i].progress_percentage =
                         FloatFloor[ProgressFloat(c, n)],
                      ![i].status = IF c = n THEN "completed"
                                    ELSE IF c > 0 THEN "in_progress"
                                    ELSE @]
              /\ reply' = Reply("module_progress_api", u, m, "ok")
  /\ UNCHANGED <<assessment, questions, attempts, responses, certifications,
                 emails, now, modules, requestVars, loginVars>>

\* assessment_list: all_modules_completed, the flag its template shows
AllModulesCompleted(cs, mods, u) ==
  /\ Cardinality({i \in 1..Len(cs) : cs[i].user = u /\ cs[i].is_completed})
       = Len(mods)
  /\ Len(mods) > 0

AssessmentList(u) ==
  /\ reply' = Reply("assessment_list", u, 0,
                    IF AllModulesCompleted(completions, modules, u)
                    THEN "all_modules_completed"
                    ELSE "modules_open")
  /\ UNCHANGED <<assessment, questions, attempts, responses, certifications,
                 emails, now, trainingVars, requestVars, loginVars>>

TrainInit ==
  /\ assessment =
       [a \in Assessments |->
          [passing_score |-> 85, total_questions |-> 1,
           randomize_questions |-> FALSE,
           is_active |-> (a = TrainAssessment)]]
  /\ questions = InitialQuestions
  /\ attempts = <<>>
  /\ responses = <<>>
  /\ certifications = <<>>
  /\ emails = {}
  /\ now = 0
  /\ reply = Reply("none", "none", 0, "none")
  /\ requests = [r \in Requests |-> IdleRequest]
  /\ modules \in Catalogs
  /\ completions = <<>>
  /\ progress = <<>>
  /\ account = NewAccount(TRUE)

TrainNext ==
  \/ \E m \in RequestedModules : ModuleView(TrainUser, m)
  \/ \E m \in RequestedModules : MarkModuleComplete(TrainUser, m)
  \/ \E m \in RequestedModules, contentType \in ContentTypes,
        percentage \in ReportedPercentages :
       ModuleProgressApi(TrainUser, m, contentType, percentage)
  \/ AssessmentList(TrainUser)
  \/ StartAssessment(TrainUser, TrainAssessment)
  \/ \E id \in RequestedAttempts, answers \in RaceAnswerMaps :
       TakeAssessmentPost(TrainUser, id, answers)

TrainSpec == TrainInit /\ [][TrainNext]_vars

(***************************************************************************)
(* Login (authentication): one registered account, logins with the right   *)
(* or a wrong password, and time passing in between, in minutes.           *)
(***************************************************************************)
MaxFailedLogins == 5
LockMinutes == 30
MaxClock == 80
WaitMinutes == {10, 30}
LoginUser == "u1"

\* is_account_locked: the answer, and the row it leaves behind (an expired
\* lock is cleared and the counter set to 0)
AccountLocked(acc, t) ==
  acc.account_locked_until # NullTime /\ t < acc.account_locked_until

LockExpired(acc, t) ==
  acc.account_locked_until # NullTime /\ t >= acc.account_locked_until

AfterLockCheck(acc, t) ==
  IF LockExpired(acc, t)
  THEN [acc EXCEPT !.account_locked_until = NullTime,
                   !.failed_login_attempts = 0]
  ELSE acc

\* the counter raised without ever locking the account
RecordFailedLoginNoLock(acc, t) ==
  [acc EXCEPT !.failed_login_attempts = @ + 1]

RecordFailedLogin(acc, t) ==
  [acc EXCEPT
     !.failed_login_attempts = @ + 1,
     !.account_locked_until =
        IF acc.failed_login_attempts + 1 >= MaxFailedLogins
        THEN t + LockMinutes ELSE @]

ResetLoginAttempts(acc) ==
  [acc EXCEPT !.failed_login_attempts = 0,
              !.account_locked_until = NullTime]

\* UserLoginForm.clean, then LoginView.form_valid for a valid form
Login(passwordOk) ==
  /\ IF AccountLocked(account, now)
     THEN /\ reply' = Reply("login", LoginUser, 0, "locked")
          /\ UNCHANGED account
     ELSE LET checked == AfterLockCheck(account, now)
          IN  IF ~passwordOk
              THEN /\ account' = RecordFailedLogin(checked, now)
                   /\ reply' = Reply("login", LoginUser, 0, "invalid")
              ELSE IF ~checked.is_email_verified
              THEN /\ account' = checked
                   /\ reply' = Reply("login", LoginUser, 0, "unverified")
              ELSE /\ account' = ResetLoginAttempts(checked)
                   /\ reply' = Reply("login", LoginUser, 0,
                                     IF checked.is_active THEN "ok"
                                     ELSE "login_failed")
  /\ UNCHANGED <<assessment, questions, attempts, responses, certifications,
                 emails, now, requestVars, trainingVars>>

Wait(d) ==
  /\ now + d <= MaxClock
  /\ now' = now + d
  /\ UNCHANGED <<assessment, questions, attempts, responses, certifications,
                 emails, reply, requestVars, trainingVars, loginVars>>

LoginInit ==
  /\ assessment =
       [a \in Assessments |->
          [passing_score |-> 85, total_questions |-> 1,
           randomize_questions |-> FALSE, is_active |-> FALSE]]
  /\ questions = InitialQuestions
  /\ attempts = <<>>
  /\ responses = <<>>
  /\ certifications = <<>>
  /\ emails = {}
  /\ now = 0
  /\ reply = Reply("none", "none", 0, "none")
  /\ requests = [r \in Requests |-> IdleRequest]
  /\ modules = <<>>
  /\ completions = <<>>
  /\ progress = <<>>
  /\ \E verified \in BOOLEAN, active \in BOOLEAN :
       account = [NewAccount(verified) EXCEPT !.is_active = active]

LoginNext ==
  \/ \E passwordOk \in BOOLEAN : Login(passwordOk)
  \/ \E d \in WaitMinutes : Wait(d)

LoginSpec == LoginInit /\ [][LoginNext]_vars

(***************************************************************************)
(* Properties                                                              *)
(***************************************************************************)
AttemptIds == 1..Len(attempts)

\* the step is a completed submit of attempt id by its owner u
SubmitDone(u, id) ==
  /\ now' = now + 1
  /\ reply' = Reply("take_post", u, id, "redirect_result")

HasCertifiedRow(certs, u) ==
  \E i \in 1..Len(certs) : certs[i].user = u /\ certs[i].is_certified

\* C1: for every attempt with total_questions > 0, calculate_score sets
\* passed exactly when correct_answers * 100 / total_questions is at least
\* the passing score (threshold inclusive)
C1_InclusiveThreshold ==
  reply.op = "calculate_score" /\ attempts[1].total_questions > 0
    => (attempts[1].passed <=>
          attempts[1].correct_answers * 100
            >= assessment[1].passing_score * attempts[1].total_questions)

\* C2: every attempt's score_percentage lies in [0, 100] and its
\* correct_answers never exceeds its total_questions
C2_ScoreInRange ==
  \A id \in AttemptIds :
    /\ attempts[id].score_percentage >= 0
    /\ attempts[id].score_percentage <= 100 * 100
    /\ attempts[id].correct_answers <= attempts[id].total_questions

\* what one submit of a freshly started attempt with these answers stores
SingleSubmit(att, rs, answers) ==
  CalculateScore(
    [att EXCEPT !.correct_answers =
       Cardinality({i \in 1..Len(rs) :
                      /\ Posted(answers, rs[i].question) \in Options
                      /\ OptionIsCorrect(Posted(answers, rs[i].question))})],
    assessment[att.assessment])

\* C3: a second submit of an attempt stores the correct_answers,
\* score_percentage and passed that a single submit with the second answers
\* map produces
C3_ResubmitOverwrites ==
  [][\A u \in Users, id \in RequestedAttempts, answers \in AnswerMaps :
       (/\ id \in AttemptIds
        /\ attempts[id].status = "submitted"
        /\ TakeAssessmentPost(u, id, answers)
        /\ reply'.status = "redirect_result")
       => LET once == SingleSubmit(
                        NewAttempt(attempts[id].user, attempts[id].assessment,
                                   attempts[id].total_questions,
                                   attempts[id].started_at),
                        responses[id], answers)
          IN  /\ attempts'[id].correct_answers = once.correct_answers
              /\ attempts'[id].score_percentage = once.score_percentage
              /\ attempts'[id].passed = once.passed]_vars

\* C4: a response only ever holds an option of its own question, so an
\* option of another question is never accepted nor counted as correct
C4_ForeignOptionRejected ==
  \A id \in AttemptIds : \A i \in 1..Len(responses[id]) :
    responses[id][i].selected_option # NoOption
      => OptionQuestion(responses[id][i].selected_option)
           = responses[id][i].question

\* C5: a take, submit or result request on an attempt by a user who does
\* not own it fails (404) and changes no attempt, response or certification
C5_OwnerOnly ==
  [][(/\ reply'.op \in {"take_get", "take_post", "result"}
      /\ reply'.target \in AttemptIds
      /\ attempts[reply'.target].user # reply'.user)
     => /\ reply'.status = "not_found"
        /\ UNCHANGED <<attempts, responses, certifications>>]_vars

C5_Witness ==
  /\ reply.op = "take_post"
  /\ reply.target \in AttemptIds
  /\ attempts[reply.target].user # reply.user
  /\ reply.status = "not_found"
  /\ attempts[reply.target].status = "submitted"

\* C6: when a submit by a user who is not yet certified ends with passed,
\* the user has after that submit a certification with is_certified, a
\* certification_date and passing_attempt = the submitted attempt
C6_PassCertifies ==
  [][\A u \in Users, id \in RequestedAttempts :
       (/\ SubmitDone(u, id)
        /\ ~HasCertifiedRow(certifications, u)
        /\ attempts'[id].passed)
       => \E i \in 1..Len(certifications') :
            /\ certifications'[i].user = u
            /\ certifications'[i].is_certified
            /\ certifications'[i].certification_date # NullTime
            /\ certifications'[i].passing_attempt = id]_vars

C6_Witness ==
  /\ reply.op = "take_post" /\ reply.status = "redirect_result"
  /\ attempts[reply.target].passed
  /\ attempts[reply.target].correct_answers
       = attempts[reply.target].total_questions
  /\ attempts[reply.target].score_percentage = 100 * 100
  /\ assessment[1].passing_score = 85
  /\ \E i \in 1..Len(certifications) :
       /\ certifications[i].user = reply.user
       /\ certifications[i].is_certified
       /\ certifications[i].passing_attempt = reply.target
       /\ certifications[i].certification_date
            = attempts[reply.target].submitted_at

\* C7: a submit that ends with passed = false creates no certification and
\* changes none
C7_FailNoCertification ==
  [][\A u \in Users, id \in RequestedAttempts :
       (SubmitDone(u, id) /\ ~attempts'[id].passed)
       => certifications' = certifications]_vars

C7_Witness ==
  /\ reply.op = "take_post" /\ reply.status = "redirect_result"
  /\ ~attempts[reply.target].passed
  /\ attempts[reply.target].correct_answers = 1
  /\ attempts[reply.target].total_questions = 4
  /\ attempts[reply.target].score_percentage = 25 * 100
  /\ assessment[1].passing_score = 85
  /\ ~HasCertifiedRow(certifications, reply.user)

\* C8: a passing submit by a user already certified through another attempt
\* leaves the user's single certification row as it was (date and
\* passing_attempt of the first passing attempt)
C8_SecondPassKeepsFirst ==
  [][\A u \in Users, id \in RequestedAttempts :
       (/\ SubmitDone(u, id)
        /\ attempts'[id].passed
        /\ \E i \in 1..Len(certifications) :
             /\ certifications[i].user = u
             /\ certifications[i].is_certified
             /\ certifications[i].passing_attempt # id)
       => /\ certifications' = certifications
          /\ Cardinality(CertRowsOf(certifications', u)) = 1]_vars

C8_Witness ==
  /\ reply.op = "take_post" /\ reply.status = "redirect_result"
  /\ attempts[reply.target].passed
  /\ \E i \in 1..Len(certifications) :
       /\ certifications[i].user = reply.user
       /\ certifications[i].is_certified
       /\ certifications[i].passing_attempt # reply.target
       /\ attempts[certifications[i].passing_attempt].passed
       /\ certifications[i].certification_date
            < attempts[reply.target].submitted_at

\* C9: a certification with is_certified = true stays a row of the same
\* user with is_certified = true and a certification_date, whatever step
\* is taken
C9_CertifiedForever ==
  [][\A i \in 1..Len(certifications) :
       certifications[i].is_certified
       => /\ i <= Len(certifications')
          /\ certifications'[i].user = certifications[i].user
          /\ certifications'[i].is_certified
          /\ certifications'[i].certification_date # NullTime]_vars

C9_Witness ==
  /\ reply.op = "take_post" /\ reply.status = "redirect_result"
  /\ ~attempts[reply.target].passed
  /\ \E i \in 1..Len(certifications) :
       /\ certifications[i].user = reply.user
       /\ certifications[i].is_certified
       /\ certifications[i].certification_date
            < attempts[reply.target].submitted_at

\* C10: office_schedule and office_detail answer a non-staff user who has no
\* certification row, or a row with is_certified = false, with the redirect
\* to the assessment list, and let a non-staff user past only when certified
C10_GateNeedsCertification ==
  (reply.op \in {"office_schedule", "office_detail"}
     /\ reply.user \notin Staff)
    => IF HasCertifiedRow(certifications, reply.user)
       THEN reply.status # "redirect_assessment_list"
       ELSE reply.status = "redirect_assessment_list"

C10_Witness ==
  /\ reply.op = "office_detail"
  /\ reply.user \notin Staff
  /\ CertRowsOf(certifications, reply.user) = {}
  /\ reply.status = "redirect_assessment_list"
  /\ \E id \in AttemptIds : attempts[id].user = reply.user

\* C11: an attempt whose total_questions is zero keeps score_percentage = 0
\* and passed = false through every submit, and no submit of it ends in a
\* server error
C11_ZeroTotalNoError ==
  /\ \A id \in AttemptIds :
       attempts[id].total_questions = 0
         => attempts[id].score_percentage = 0 /\ ~attempts[id].passed
  /\ (/\ reply.op = "take_post"
      /\ reply.target \in AttemptIds
      /\ attempts[reply.target].total_questions = 0)
       => reply.status # "server_error"

C11_Witness ==
  /\ reply.op = "take_post" /\ reply.status = "redirect_result"
  /\ attempts[reply.target].total_questions = 0
  /\ attempts[reply.target].status = "submitted"
  /\ attempts[reply.target].correct_answers > 0
  /\ assessment[1].passing_score = 0

\* C12: an attempt submitted with no question answered has
\* correct_answers = 0, score_percentage = 0 and passed = false, whatever
\* the assessment's passing_score and total_questions are
C12_NoAnswersFails ==
  \A id \in AttemptIds :
    (/\ attempts[id].status = "submitted"
     /\ \A i \in 1..Len(responses[id]) :
          responses[id][i].selected_option = NoOption)
      => /\ attempts[id].correct_answers = 0
         /\ attempts[id].score_percentage = 0
         /\ ~attempts[id].passed

\* C13: a submit leaves every response whose question is absent from the
\* posted answers with selected_option absent and is_correct = false, adds
\* nothing to correct_answers for it, and does not fail because of it
C13_UnansweredLeftBlank ==
  [][\A u \in Users, id \in RequestedAttempts, answers \in AnswerMaps :
       (/\ AttemptFound(attempts, u, id)
        /\ TakeAssessmentPost(u, id, answers))
       => LET omitted == {i \in 1..Len(responses[id]) :
                            Posted(answers, responses[id][i].question)
                              = NoOption}
          IN  /\ \A i \in omitted :
                   /\ responses'[id][i].selected_option = NoOption
                   /\ ~responses'[id][i].is_correct
              /\ attempts'[id].correct_answers - attempts[id].correct_answers
                   <= Len(responses[id]) - Cardinality(omitted)
              /\ (omitted = 1..Len(responses[id])
                    => reply'.status = "redirect_result")]_vars

\* C14: a start on an active assessment appends exactly one attempt, owned
\* by the user, in_progress, with the assessment's current total_questions,
\* correct_answers 0, score 0 and passed false, and leaves the attempts that
\* already exist (of the same user and assessment too) as they are
C14_StartCreatesAttempt ==
  [][\A u \in Users, aid \in RequestedAssessments :
       (StartAssessment(u, aid) /\ AssessmentFound(assessment, aid))
       => /\ Len(attempts') = Len(attempts) + 1
          /\ \A id \in AttemptIds : attempts'[id] = attempts[id]
          /\ LET att == attempts'[Len(attempts')]
             IN  /\ att.user = u
                 /\ att.assessment = aid
                 /\ att.status = "in_progress"
                 /\ att.total_questions = assessment[aid].total_questions
                 /\ att.correct_answers = 0
                 /\ att.score_percentage = 0
                 /\ ~att.passed
                 /\ att.submitted_at = NullTime]_vars

C14_Witness ==
  /\ reply.op = "start" /\ reply.status = "redirect_take"
  /\ Len(attempts) = 2
  /\ attempts[1].user = attempts[2].user
  /\ attempts[1].assessment = attempts[2].assessment
  /\ attempts[1].status = "submitted"
  /\ attempts[1].total_questions = 1
  /\ attempts[2].total_questions = 2
  /\ attempts[2].status = "in_progress"

\* C15: right after a start the new attempt has exactly one response per
\* question of the assessment and none for another question, each with no
\* selected option and is_correct false, whether the questions are shuffled
\* or not; and no attempt ever has two responses for one question
C15_ResponsesBijection ==
  [][/\ \A u \in Users, aid \in RequestedAssessments :
          (StartAssessment(u, aid) /\ AssessmentFound(assessment, aid))
          => LET rs == responses'[Len(attempts')]
             IN  /\ Len(responses') = Len(attempts')
                 /\ Len(rs) = Cardinality(QuestionsOf(questions, aid))
                 /\ {rs[i].question : i \in 1..Len(rs)}
                      = QuestionsOf(questions, aid)
                 /\ \A i \in 1..Len(rs) :
                      /\ rs[i].selected_option = NoOption
                      /\ ~rs[i].is_correct
     /\ \A id \in 1..Len(responses') :
          \A i, j \in 1..Len(responses'[id]) :
            i # j => responses'[id][i].question # responses'[id][j].question
    ]_vars

C15_Witness ==
  /\ reply.op = "start" /\ reply.status = "redirect_take"
  /\ Len(responses) = 2
  /\ Len(responses[1]) = 1
  /\ responses[1][1].selected_option # NoOption
  /\ Len(responses[2]) = 2
  /\ responses[2][1].question = 3
  /\ responses[2][2].question = 2

\* C17: no step changes the total_questions of an existing attempt, also
\* not one that changes the assessment's total_questions or questions, and
\* a submit stores the score of correct_answers over that stored total
C17_TotalFrozen ==
  [][/\ \A id \in AttemptIds :
          attempts'[id].total_questions = attempts[id].total_questions
     /\ \A u \in Users, id \in RequestedAttempts :
          (SubmitDone(u, id) /\ attempts[id].total_questions > 0)
          => attempts'[id].score_percentage
               = Score(attempts'[id].correct_answers,
                       attempts[id].total_questions).stored]_vars

C17_Witness ==
  /\ reply.op = "take_post" /\ reply.status = "redirect_result"
  /\ attempts[reply.target].total_questions = 1
  /\ assessment[QuizAssessment].total_questions = 2
  /\ Len(responses[reply.target]) = 2
  /\ attempts[reply.target].correct_answers = 1
  /\ attempts[reply.target].score_percentage = 100 * 100
  /\ attempts[reply.target].passed

\* C16: a start on an assessment that does not exist or is not active is
\* answered NotFound and adds no attempt and no response
C16_StartNotFound ==
  [][\A u \in Users, aid \in RequestedAssessments :
       (/\ StartAssessment(u, aid)
        /\ IF aid \in Assessments THEN ~assessment[aid].is_active ELSE TRUE)
       => /\ reply'.status = "not_found"
          /\ attempts' = attempts
          /\ responses' = responses]_vars

C16_Witness ==
  /\ reply.op = "start" /\ reply.status = "not_found"
  /\ reply.target \in Assessments
  /\ ~assessment[reply.target].is_active
  /\ Len(attempts) > 0

\* C18: the status of an attempt only moves forward along in_progress,
\* submitted, graded, so it never returns to in_progress, and after every
\* step submitted_at is set exactly for the attempts that are no longer
\* in_progress
C18_StatusForward ==
  [][/\ \A id \in AttemptIds :
          /\ attempts[id].status # "in_progress"
               => attempts'[id].status # "in_progress"
          /\ attempts[id].status = "graded"
               => attempts'[id].status = "graded"
     /\ \A id \in 1..Len(attempts') :
          attempts'[id].submitted_at # NullTime
            <=> attempts'[id].status # "in_progress"]_vars

C18_Witness ==
  /\ reply.op = "take_post" /\ reply.status = "redirect_result"
  /\ attempts[reply.target].status = "submitted"
  /\ attempts[reply.target].submitted_at > attempts[reply.target].started_at + 1
  /\ \E id \in AttemptIds : attempts[id].status = "in_progress"

\* C19: once the result of a submitted attempt has been read, the attempt
\* is graded
C19_ResultReadGrades ==
  (/\ reply.op = "result" /\ reply.status = "ok"
   /\ attempts[reply.target].status # "in_progress")
  => attempts[reply.target].status = "graded"

\* C20: every submitted attempt has had its passed or failed assessment
\* mail sent
C20_SubmitSendsEmail ==
  \A id \in AttemptIds :
    attempts[id].status # "in_progress"
    => \E m \in emails : /\ m.kind \in {"passed", "failed"}
                         /\ m.attempt = id
                         /\ m.user = attempts[id].user

\* C26: every attempt that is no longer in_progress stores as
\* correct_answers the number of its responses that are marked correct
C26_CorrectCountMatches ==
  \A id \in AttemptIds :
    attempts[id].status # "in_progress"
    => attempts[id].correct_answers
         = Cardinality({i \in 1..Len(responses[id]) :
                          responses[id][i].is_correct})

\* C27: a submit answered NotFound because a posted option id names no
\* option row leaves the attempt and all of its responses as they were
C27_FailedSubmitNoChange ==
  [][\A u \in Users, id \in RequestedAttempts, answers \in StaleAnswerMaps :
       (/\ TakeAssessmentPost(u, id, answers)
        /\ AttemptFound(attempts, u, id)
        /\ FirstMissing(responses[id], answers) > 0)
       => /\ reply'.status = "not_found"
          /\ attempts' = attempts
          /\ responses' = responses]_vars

\* C21: when two submit requests for one attempt have both read the attempt
\* row before either wrote it, neither of them fails, and the stored
\* correct_answers, score_percentage and passed are those computed by one
\* of the two, the one that wrote last
C21_LastWriterWins ==
  \A r1, r2 \in Requests :
    (/\ r1 # r2
     /\ requests[r1].pc \in Finished /\ requests[r2].pc \in Finished
     /\ requests[r1].id = requests[r2].id
     /\ requests[r1].overlap /\ requests[r2].overlap)
    => /\ requests[r1].pc = "done" /\ requests[r2].pc = "done"
       /\ \E r \in {r1, r2} :
            LET stored == attempts[requests[r].id]
                mine == requests[r].att
            IN  /\ stored.correct_answers = mine.correct_answers
                /\ stored.score_percentage = mine.score_percentage
                /\ stored.passed = mine.passed

\* C22: no request of two concurrent passing submits of a user without a
\* certification row fails on creating the row, and once both are through
\* the user has exactly one certification row, with is_certified true
C22_NoDuplicateRowError ==
  [][\A r \in Requests :
       /\ (CertCreate(r) => requests'[r].pc # "failed")
       /\ \A r2 \in Requests \ {r} :
            (/\ requests'[r].pc \in Finished /\ requests'[r2].pc \in Finished
             /\ requests'[r].att.passed /\ requests'[r2].att.passed)
            => /\ requests'[r].pc = "done" /\ requests'[r2].pc = "done"
               /\ Cardinality(CertRowsOf(certifications', RaceUser)) = 1
               /\ IsCertified(certifications', RaceUser)]_vars

\* C25: a certification row with is_certified true names a passing_attempt
\* that exists, belongs to the certified user and is stored as passed
C25_CertifiedByPassingAttempt ==
  \A i \in 1..Len(certifications) :
    certifications[i].is_certified
    => /\ certifications[i].passing_attempt \in AttemptIds
       /\ attempts[certifications[i].passing_attempt].user
            = certifications[i].user
       /\ attempts[certifications[i].passing_attempt].passed

\* C23: start creates an attempt only for a user who has completed every
\* training module, so no user is certified with a module left open
C23_StartNeedsTraining ==
  [][/\ Len(attempts') > Len(attempts)
        => \A m \in ModuleIds(modules) :
             m \in CompletedModules(completions, modules,
                                    attempts'[Len(attempts')].user,
                                    modules[m].course)
     /\ \A u \in Users :
          IsCertified(certifications', u)
          => \A m \in ModuleIds(modules') :
               m \in CompletedModules(completions', modules', u,
                                      modules'[m].course)]_vars

\* C24: a module becomes completed for a user only while course_detail
\* shows it unlocked, that is with every earlier module of its course
\* already completed by that user
C24_CompleteOnlyUnlocked ==
  [][\A u \in Users, m \in ModuleIds(modules) :
       (/\ m \notin CompletedModules(completions, modules, u,
                                      modules[m].course)
        /\ m \in CompletedModules(completions', modules', u,
                                   modules[m].course))
       => ~IsLocked(completions, modules, u, m)]_vars

\* C28: every UserTrainingProgress row has a progress_percentage from 0
\* to 100
C28_ProgressInRange ==
  \A i \in 1..Len(progress) :
    progress[i].progress_percentage \in 0..100

\* C29: a progress row has status completed only with every required
\* module of its course completed by its user, and a completed row is not
\* moved back to in_progress
C29_CompletedIsStable ==
  [][/\ \A i \in 1..Len(progress') :
          progress'[i].status = "completed"
          => RequiredModules(modules', progress'[i].course)
               \subseteq CompletedModules(completions', modules',
                                          progress'[i].user,
                                          progress'[i].course)
     /\ \A i \in 1..Len(progress) :
          progress[i].status = "completed"
          => progress'[i].status # "in_progress"]_vars

\* C30: the account is locked exactly when failed_login_attempts has
\* reached 5, which it never exceeds; a login during the 30 minutes of the
\* lock is rejected whatever the password and leaves the counter alone; a
\* login after the lock has expired starts from a counter of 0; a
\* successful login sets the counter to 0
C30_LoginLockout ==
  [][\A passwordOk \in BOOLEAN :
       Login(passwordOk)
       => /\ account'.failed_login_attempts \in 0..MaxFailedLogins
          /\ (account'.account_locked_until # NullTime
                <=> account'.failed_login_attempts = MaxFailedLogins)
          /\ AccountLocked(account, now)
               => /\ reply'.status = "locked"
                  /\ account' = account
          /\ (~AccountLocked(account, now) /\ ~passwordOk)
               => /\ reply'.status = "invalid"
                  /\ account'.failed_login_attempts =
                       (IF LockExpired(account, now) THEN 0
                        ELSE account.failed_login_attempts) + 1
                  /\ account'.failed_login_attempts = MaxFailedLogins
                       => account'.account_locked_until = now + LockMinutes
          /\ (LockExpired(account, now) /\ passwordOk)
               => /\ account'.failed_login_attempts = 0
                  /\ account'.account_locked_until = NullTime
          /\ reply'.status = "ok"
               => /\ account'.failed_login_attempts = 0
                  /\ account'.account_locked_until = NullTime]_vars

C30_Witness ==
  /\ reply.op = "login" /\ reply.status = "locked"
  /\ account.failed_login_attempts = MaxFailedLogins
  /\ account.is_email_verified /\ account.is_active
  /\ account.account_locked_until = 40 + LockMinutes
  /\ now = 60

====
